---- MODULE Spec2Model ----
(***************************************************************************)
(* A model of spinmc: lattice construction (lattice/grid.rs), the exchange *)
(* Hamiltonian (calculators/mod.rs), the spin types (spin/*.rs), the Wolff *)
(* and Metropolis updates (monte_carlo/*.rs), configuration resolution     *)
(* (config/*.rs) and the run driver (main.rs).                             *)
(*                                                                         *)
(* Conventions.  Rust vectors are functions over 0..len-1 or sequences;    *)
(* arrays [a; 3] are 3-tuples (1-indexed here, 0-indexed in the source).   *)
(* f64 quantities are kept exact as integers: spin components are integer  *)
(* multiples of the cardinal unit vectors, couplings are integers, and the *)
(* only facts used about exp() and the uniform draw in [0,1) are their     *)
(* signs and ranges.                                                       *)
(***************************************************************************)
EXTENDS Integers, Sequences, FiniteSets, TLC

VARIABLES
    cfg,        \* config::Config handed to Grid::new and run_single_simulate
    pc,         \* position of the run
    grid,       \* lattice::Grid without its spins: status, size, calc_inputs
    steps_done, \* number of mc.step calls counted by RunSingleSimulate
    spins,      \* grid.spins: site index -> spin state
    spins0,     \* history: grid.spins when the current mc.step was entered
    mc,         \* the locals of the mc.step in progress, and what it returned
    measured,   \* the last value of Grid::total_energy, if the lattice has not changed since
    stats,      \* monte_carlo::Stats of the run, with the history of its samples
    sched       \* run_parallel_simulations and run: the tasks, the results, the file

vars == <<cfg, pc, grid, steps_done, spins, spins0, mc, measured, stats, sched>>

\* The statistics and the scheduler, where a specification leaves them out.
aux_vars == <<stats, sched>>

NoStats == [some |-> FALSE]

NoSched == [some |-> FALSE]

(***************************************************************************)
(* Bounds of the model.                                                    *)
(***************************************************************************)
MaxDim == 3     \* each lattice axis has length 1..MaxDim
MaxOff == 3     \* rule offsets have components in -MaxOff..MaxOff
MaxSub == 2     \* 1..MaxSub sublattices

(***************************************************************************)
(* Integer helpers.                                                        *)
(***************************************************************************)
\* Rust's % on isize truncates towards zero: the result has the dividend's sign.
RustRem(a, b) == IF a >= 0 THEN a % b ELSE -((-a) % b)

\* The mathematical modulo, in 0..b-1.
MathMod(a, b) == a % b

Range(s) == {s[i] : i \in DOMAIN s}

RECURSIVE SumSeq(_)
SumSeq(s) == IF s = <<>> THEN 0 ELSE Head(s) + SumSeq(Tail(s))

(***************************************************************************)
(* lattice/grid.rs: index arithmetic.                                      *)
(***************************************************************************)
\* coord_to_index with the stride of x taken from the first two axes.
coord_to_index_wrong_stride(coord, sublattice, dim) ==
    sublattice * (dim[1] * dim[2] * dim[3])
        + coord[1] * (dim[1] * dim[2]) + coord[2] * dim[3] + coord[3]

\* coord_to_index.  The coordinates are cast `as usize`; a negative c casts
\* to 2^64 + c and the products and sums wrap modulo 2^64 (release build), so
\* the returned usize is this integer modulo 2^64.  All magnitudes here are
\* tiny, so a negative value v stands for the usize 2^64 + v and a value
\* >= 0 for itself.
coord_to_index(coord, sublattice, dim) ==
    sublattice * (dim[1] * dim[2] * dim[3])
        + coord[1] * (dim[2] * dim[3]) + coord[2] * dim[3] + coord[3]

\* The wrap without the `+ dim`.
wrap_coord_no_add(c, d) == RustRem(c, d)

\* The wrap of line 177, applied to an out-of-range coordinate of a periodic axis.
wrap_coord(c, d) == RustRem(c + d, d)

\* An open axis treated as a periodic one.
resolve_axis_always_wraps(c, d, periodic) ==
    IF c < 0 \/ c >= d
    THEN [some |-> TRUE, c |-> wrap_coord(c, d)]
    ELSE [some |-> TRUE, c |-> c]

\* One axis of the loop of safe_coord_to_index: the coordinate after the
\* iteration, or "None" when the function returns None there.
resolve_axis(c, d, periodic) ==
    IF c < 0 \/ c >= d
    THEN IF periodic THEN [some |-> TRUE, c |-> wrap_coord(c, d)]
                     ELSE [some |-> FALSE, c |-> c]
    ELSE [some |-> TRUE, c |-> c]

\* safe_coord_to_index: Option<usize> as [some, index]; coord is the resolved
\* coordinate handed to coord_to_index.
safe_coord_to_index(coord, sublattice, dim, sublattices, pbc) ==
    LET r == [i \in 1..3 |-> resolve_axis(coord[i], dim[i], pbc[i])]
        c == <<r[1].c, r[2].c, r[3].c>>
    IN  IF \E i \in 1..3 : ~r[i].some
        THEN [some |-> FALSE, index |-> 0, coord |-> c]
        ELSE IF sublattice >= sublattices
        THEN [some |-> FALSE, index |-> 0, coord |-> c]
        ELSE [some |-> TRUE, index |-> coord_to_index(c, sublattice, dim), coord |-> c]

(***************************************************************************)
(* calculators/mod.rs: CalcInput::validate_exchange_neighbor.  A neighbour *)
(* entry is <<index, strength>>; the source stores the address of          *)
(* spins[index], and two addresses are equal iff the indices are.  FALSE   *)
(* stands for the panic.                                                   *)
(***************************************************************************)
validate_exchange_neighbor_unchecked(list) == TRUE

validate_exchange_neighbor(list) ==
    \A i, j \in DOMAIN list : i # j => list[i][1] # list[j][1]

(***************************************************************************)
(* lattice/grid.rs: Grid::new, the neighbour loop (lines 71-104).          *)
(***************************************************************************)
total_sites(c) == c.dim[1] * c.dim[2] * c.dim[3]

grid_size(c) == total_sites(c) * c.sublattices

\* spins.len(): total_sites entries per configured magnitude (lines 41-56).
spins_len(c) == total_sites(c) * Len(c.spin_magnitudes)

\* The n-th tuple (n = 1..) of iproduct!(0..num_sublattices, 0..dim[0], 0..dim[1], 0..dim[2]).
iproduct_site(c, n) ==
    LET k == n - 1
        t == total_sites(c)
    IN  <<k \div t, (k % t) \div (c.dim[2] * c.dim[3]),
          (k % (c.dim[2] * c.dim[3])) \div c.dim[3], k % c.dim[3]>>

\* The (rule, offset) pairs in the order the two nested loops visit them.
RECURSIVE exchange_links(_)
exchange_links(params) ==
    IF params = <<>> THEN <<>>
    ELSE LET p == Head(params)
         IN  [k \in 1..Len(p.offsets) |->
                 [from_sub |-> p.from_sub, to_sub |-> p.to_sub,
                  offset |-> p.offsets[k], strength |-> p.strength]]
             \o exchange_links(Tail(params))

offset_coord(site, offset) ==
    <<offset[1] + site[2], offset[2] + site[3], offset[3] + site[4]>>

\* `&spins[offset_index]`: the bounds check of the index.  With overflow
\* checks on (debug build) the arithmetic of coord_to_index panics as soon as
\* a cast coordinate is 2^64 + c, or the unwrapped sum is out of bounds;
\* without them the wrapped sum is used.
index_panics(r, c, overflow_checks) ==
    \/ r.index < 0
    \/ r.index >= spins_len(c)
    \/ overflow_checks /\ \E i \in 1..3 : r.coord[i] < 0

\* The exchange_neighbors vector of one site after the first k links, or the panic.
RECURSIVE push_neighbors(_, _, _, _, _)
push_neighbors(c, site, links, k, overflow_checks) ==
    IF k = 0 THEN [panic |-> FALSE, list |-> <<>>]
    ELSE LET prev == push_neighbors(c, site, links, k - 1, overflow_checks)
             l == links[k]
             r == safe_coord_to_index(offset_coord(site, l.offset), l.to_sub,
                                      c.dim, c.sublattices, c.pbc)
         IN  IF prev.panic \/ l.from_sub # site[1] \/ ~r.some THEN prev
             ELSE IF index_panics(r, c, overflow_checks)
             THEN [panic |-> TRUE, list |-> prev.list]
             ELSE [panic |-> FALSE, list |-> Append(prev.list, <<r.index, l.strength>>)]

\* The grid after the first n iterations of the site loop.
RECURSIVE build_sites(_, _, _)
build_sites(c, n, overflow_checks) ==
    IF n = 0
    THEN [status |-> "ok", size |-> grid_size(c),
          calc_inputs |-> [i \in 0..(spins_len(c) - 1) |-> <<>>]]
    ELSE LET prev == build_sites(c, n - 1, overflow_checks)
             site == iproduct_site(c, n)
             index == coord_to_index(<<site[2], site[3], site[4]>>, site[1], c.dim)
             links == exchange_links(c.exchange_params)
             res == push_neighbors(c, site, links, Len(links), overflow_checks)
         IN  IF prev.status # "ok" THEN prev
             ELSE IF res.panic
             THEN [prev EXCEPT !.status = "panic_index"]
             ELSE IF ~validate_exchange_neighbor(res.list)
             THEN [prev EXCEPT !.status = "panic_duplicate"]
             ELSE [prev EXCEPT !.calc_inputs[index] = res.list]

\* Grid::new: the grid, or the panic that ends it.
grid_new(c, overflow_checks) ==
    build_sites(c, grid_size(c), overflow_checks)

NoGrid == [status |-> "none", size |-> 0, calc_inputs |-> <<>>]

(***************************************************************************)
(* spin/mod.rs, spin/ising.rs, spin/heisenberg.rs: the spin types.  A spin *)
(* is the tuple of its components: <<s>> (Ising), <<x, y>> (XY),           *)
(* <<x, y, z>> (Heisenberg).                                               *)
(***************************************************************************)
Models == {"Ising", "XY", "Heisenberg"}

\* SpinVector::dot: the sum of the products of the components.
sv_dot(a, b) == SumSeq([i \in DOMAIN a |-> a[i] * b[i]])

\* SpinVector * f64.
sv_scale(a, f) == [i \in DOMAIN a |-> a[i] * f]

\* IsingSpin::dot.
ising_dot(a, b) == a[1] * b[1]

\* HeisenbergSpin::dot: the x and y products.
heisenberg_dot(a, b) == a[1] * b[1] + a[2] * b[2]

\* XYSpin::dot.
xy_dot(a, b) == a[1] * b[1] + a[2] * b[2]

\* SpinState::dot of the model's spin type.
spin_dot(model, a, b) ==
    CASE model = "Ising" -> ising_dot(a, b)
      [] model = "XY" -> xy_dot(a, b)
      [] model = "Heisenberg" -> heisenberg_dot(a, b)

\* f64::signum: 1.0 for +0.0 and positive values, -1.0 for negative ones.
signum(x) == IF x >= 0 THEN 1 ELSE -1

\* IsingSpin::direction.
ising_direction(s) == <<signum(s[1])>>

\* S::new_x, S::new_y, S::new_z.
new_aligned(model, axis, magnitude) ==
    CASE model = "Ising" -> <<magnitude>>
      [] model = "XY" ->
            IF axis = "x" THEN <<magnitude, 0>> ELSE <<0, magnitude>>
      [] model = "Heisenberg" ->
            CASE axis = "x" -> <<magnitude, 0, 0>>
              [] axis = "y" -> <<0, magnitude, 0>>
              [] axis = "z" -> <<0, 0, magnitude>>

\* The unit vectors a random draw can return: a sign (Ising), and for the
\* continuous models the cardinal directions kept by the model.
UnitDirs(model) ==
    CASE model = "Ising" -> {<<1>>, <<-1>>}
      [] model = "XY" -> {<<1, 0>>, <<-1, 0>>, <<0, 1>>, <<0, -1>>}
      [] model = "Heisenberg" -> {<<1, 0, 0>>, <<-1, 0, 0>>, <<0, 0, 1>>, <<0, 0, -1>>}

\* S::random / S::new_random: a random orientation of the given magnitude.
random_spins(model, magnitude) == {sv_scale(u, magnitude) : u \in UnitDirs(model)}

\* SpinVector::random: the reflection axes of the continuous models.  The
\* sign of the axis changes neither the reflection nor the bond weight.
random_axes(model) ==
    CASE model = "XY" -> {<<1, 0>>, <<0, 1>>}
      [] model = "Heisenberg" -> {<<1, 0, 0>>, <<0, 0, 1>>}

\* S::propose_perturbation: the negation (Ising), a fresh random orientation
\* (Heisenberg, XY).
propose_perturbation(model, s, magnitude) ==
    IF model = "Ising" THEN {<<-s[1]>>} ELSE random_spins(model, magnitude)

\* A flip that removes the projection instead of reflecting it.
heisenberg_flip_projected(s, axis) ==
    LET det_vec == sv_scale(axis, sv_dot(s, axis))
    IN  <<s[1] - det_vec[1], s[2] - det_vec[2], s[3] - det_vec[3]>>

\* HeisenbergSpin::flip: state - 2 (state . axis) axis.
heisenberg_flip(s, axis) ==
    LET det_vec == sv_scale(axis, 2 * sv_dot(s, axis))
    IN  <<s[1] - det_vec[1], s[2] - det_vec[2], s[3] - det_vec[3]>>

\* XYSpin::flip.
xy_flip(s, axis) ==
    LET det_vec == sv_scale(axis, 2 * sv_dot(s, axis))
    IN  <<s[1] - det_vec[1], s[2] - det_vec[2]>>

\* IsingSpin::flip: the sign negation.
ising_flip(s, axis) == <<-s[1]>>

flip(model, s, axis) ==
    CASE model = "Ising" -> ising_flip(s, axis)
      [] model = "XY" -> xy_flip(s, axis)
      [] model = "Heisenberg" -> heisenberg_flip(s, axis)

(***************************************************************************)
(* calculators/mod.rs: the Hamiltonian.  An f64 energy is kept exact:      *)
(* per-site energies are integers, and the halved total is the rational    *)
(* [num, den].                                                             *)
(***************************************************************************)
\* exchange_energy: -sum_j J * spin.dot(neighbour_j), the neighbours read
\* from the spin array.
exchange_energy(model, spin, list, sp) ==
    SumSeq([e \in DOMAIN list |-> -(list[e][2] * spin_dot(model, spin, sp[list[e][1]]))])

\* The HamiltonianConfig that Grid::new builds (grid.rs 64-69).
grid_hamiltonian ==
    [exchange_enable |-> TRUE, anisotropy_enable |-> FALSE,
     zeeman_enable |-> FALSE, dm_enable |-> FALSE]

\* Hamiltonian::compute with only the exchange term enabled; the other terms
\* are unimplemented!() and are handled where a configuration can enable them.
hamiltonian_compute(model, spin, list, sp) ==
    IF grid_hamiltonian.exchange_enable THEN exchange_energy(model, spin, list, sp) ELSE 0

\* The sum over the sites, not halved.
site_energy_sum(model, g, sp) ==
    SumSeq([n \in 1..g.size |->
               hamiltonian_compute(model, sp[n - 1], g.calc_inputs[n - 1], sp)])

total_energy_not_halved(model, g, sp) ==
    [num |-> site_energy_sum(model, g, sp), den |-> 1]

\* Grid::total_energy: the sum over the sites of spin.energy(..), / 2.0.
total_energy(model, g, sp) ==
    [num |-> site_energy_sum(model, g, sp), den |-> 2]

\* SpinState::energy_diff with the arguments swapped.
energy_diff_swapped(model, new_spin, list, sp, old_spin) ==
    hamiltonian_compute(model, old_spin, list, sp)
        - hamiltonian_compute(model, new_spin, list, sp)

\* The Ising shortcut taken on the spin that is being replaced.
energy_diff_of_current(model, new_spin, list, sp, old_spin) ==
    IF model = "Ising"
    THEN 2 * hamiltonian_compute(model, old_spin, list, sp)
    ELSE hamiltonian_compute(model, new_spin, list, sp)
            - hamiltonian_compute(model, old_spin, list, sp)

\* SpinState::energy_diff (spin/mod.rs, and the same in heisenberg.rs): the
\* energy of self minus the energy of old_spin.  IsingSpin::energy_diff is
\* twice the energy of self.
energy_diff(model, new_spin, list, sp, old_spin) ==
    IF model = "Ising"
    THEN 2 * hamiltonian_compute(model, new_spin, list, sp)
    ELSE hamiltonian_compute(model, new_spin, list, sp)
            - hamiltonian_compute(model, old_spin, list, sp)

(***************************************************************************)
(* The configurations of the lattice specification.                        *)
(***************************************************************************)
Offs == (-MaxOff)..MaxOff

\* Offsets along y and z: the nearest and the farthest.
EdgeOffs == {-MaxOff, -1, 0, 1, MaxOff}

AxisOffsets ==
    {<<k, 0, 0>> : k \in Offs} \cup {<<0, k, 0>> : k \in EdgeOffs}
        \cup {<<0, 0, k>> : k \in EdgeOffs}

NearestNeighbors ==
    << <<1, 0, 0>>, <<-1, 0, 0>>, <<0, 1, 0>>, <<0, -1, 0>>, <<0, 0, 1>>, <<0, 0, -1>> >>

Rule(f, t, offs, j) == [from_sub |-> f, to_sub |-> t, offsets |-> offs, strength |-> j]

\* Offset lists of a rule between sublattice 0 and itself: one offset along an
\* axis, two offsets along x, or the six nearest neighbours.
OffsetLists ==
    {<<o>> : o \in AxisOffsets}
        \cup {<< <<a, 0, 0>>, <<b, 0, 0>> >> : a \in {-MaxOff, -1, 1, 2, MaxOff}, b \in {1, -1}}
        \cup {NearestNeighbors}

CrossOffsetLists == { << <<0, 0, 0>> >>, << <<1, 0, 0>> >>, << <<-1, 0, 0>>, <<1, 0, 0>> >> }

\* Rule sets within one sublattice.
PlainRuleSets ==
    {<<Rule(0, 0, offs, 1)>> : offs \in OffsetLists}
        \cup { <<Rule(0, 0, << <<1, 0, 0>> >>, 1), Rule(0, 0, << <<-1, 0, 0>> >>, 1)>>,
               <<Rule(0, 0, << <<0, 1, 0>> >>, 1), Rule(0, 0, << <<0, 1, 0>> >>, 1)>> }

\* Rule sets that name a second sublattice (which the grid may not have).
CrossRuleSets ==
    {<<Rule(f, t, offs, 1)>> :
        f \in 0..(MaxSub - 1), t \in 0..(MaxSub - 1), offs \in CrossOffsetLists}
        \cup { <<Rule(0, 1, << <<0, 0, 0>> >>, 1), Rule(1, 0, << <<0, 0, 0>> >>, 1)>> }

Dims3 == (1..MaxDim) \X (1..MaxDim) \X (1..MaxDim)

\* The shapes of the lattices with several sublattices: at most 2 * MaxDim cells.
SmallDims3 == {d \in Dims3 : d[1] * d[2] * d[3] <= 2 * MaxDim}

LatticeConfigs ==
    [dim : Dims3, sublattices : {1}, pbc : BOOLEAN \X BOOLEAN \X BOOLEAN,
     exchange_params : PlainRuleSets, n_equil : {1}, n_steps : {2}]
    \cup
    [dim : SmallDims3, sublattices : 1..MaxSub,
     pbc : {<<TRUE, TRUE, TRUE>>, <<FALSE, FALSE, FALSE>>},
     exchange_params : CrossRuleSets, n_equil : {1}, n_steps : {2}]

\* RawConfig::validate_grid makes spin_magnitudes as long as sublattices.
WithMagnitudes(c) ==
    [dim |-> c.dim, sublattices |-> c.sublattices, pbc |-> c.pbc,
     exchange_params |-> c.exchange_params, n_equil |-> c.n_equil, n_steps |-> c.n_steps,
     spin_magnitudes |-> [s \in 1..c.sublattices |-> 1]]

(***************************************************************************)
(* The lattice specification: one temperature's closure of                 *)
(* run_parallel_simulations (main.rs 94-121): Grid::new, then              *)
(* run_single_simulate.  Every temperature runs this closure on the same   *)
(* configuration.                                                          *)
(***************************************************************************)
mc_vars == <<spins, spins0, mc, measured>>

\* No step in progress and none returned yet.
McIdle ==
    [pc |-> "idle", index |-> 0, axis |-> <<>>, visited |-> {}, cluster |-> <<>>,
     queue |-> <<>>, proposed |-> <<>>, delta_e |-> 0, accepted |-> FALSE, ret |-> 0]

NoSample == [some |-> FALSE, energy |-> [num |-> 0, den |-> 1]]

InitLattice ==
    /\ cfg \in {WithMagnitudes(c) : c \in LatticeConfigs}
    /\ pc = "configured"
    /\ grid = NoGrid
    /\ steps_done = 0
    /\ spins = <<>>
    /\ spins0 = <<>>
    /\ mc = McIdle
    /\ measured = NoSample
    /\ stats = NoStats
    /\ sched = NoSched

\* Grid::new.  The build profile decides whether integer overflow panics.
GridNew ==
    /\ pc = "configured"
    /\ \E overflow_checks \in BOOLEAN :
          grid' = grid_new(cfg, overflow_checks)
    /\ pc' = IF grid'.status = "ok" THEN "built" ELSE "panicked"
    /\ UNCHANGED <<cfg, steps_done, mc_vars, aux_vars>>

\* run_single_simulate on a built grid: n_equil + n_steps calls of mc.step,
\* then the result.  The lattice specification counts the steps only.
RunSingleSimulate ==
    /\ pc = "built"
    /\ steps_done' = steps_done + cfg.n_equil + cfg.n_steps
    /\ pc' = "finished"
    /\ UNCHANGED <<cfg, grid, mc_vars, aux_vars>>

NextLattice == GridNew \/ RunSingleSimulate

SpecLattice == InitLattice /\ [][NextLattice]_vars

(***************************************************************************)
(* monte_carlo/wolff.rs: Wolff::step.                                      *)
(***************************************************************************)
\* The sign of beta = 1 / (kb * t) (main.rs 133).
beta_sign(c) == IF c.kb * c.t >= 0 THEN 1 ELSE -1

\* Whether `rng.random::<f64>() < p` can be true for
\* p = 1 - exp(-2 beta j a b): the draw is in [0, 1), so exactly when p > 0,
\* that is when beta * j * a * b > 0.
draw_can_pass(c, j, a, b) == beta_sign(c) * j * a * b > 0

\* The reflection axis (wolff.rs 12-17): the seed's direction for Ising, a
\* random unit vector otherwise.
wolff_axes(c, sp, i) ==
    IF c.model = "Ising" THEN {ising_direction(sp[i])} ELSE random_axes(c.model)

\* Whether the neighbour entry e of `site` is pushed to the queue, given the
\* outcome `draw` of its random draw.  Without the visited test.
wolff_adds_revisiting(c, sp, w, site, e, draw) ==
    /\ ~(c.model = "Ising" /\ spin_dot(c.model, sp[e[1]], sp[site]) < 0)
    /\ draw
    /\ draw_can_pass(c, e[2], sv_dot(sp[site], w.axis), sv_dot(sp[e[1]], w.axis))

\* Whether the neighbour entry e of `site` is pushed to the queue (wolff.rs
\* 31-54), given the outcome `draw` of its random draw.
wolff_adds(c, sp, w, site, e, draw) ==
    /\ e[1] \notin w.visited
    /\ ~(c.model = "Ising" /\ spin_dot(c.model, sp[e[1]], sp[site]) < 0)
    /\ draw
    /\ draw_can_pass(c, e[2], sv_dot(sp[site], w.axis), sv_dot(sp[e[1]], w.axis))

\* The locals after the for loop has handled the first k neighbours of `site`.
RECURSIVE wolff_scan(_, _, _, _, _, _, _)
wolff_scan(c, sp, w, site, list, k, draws) ==
    IF k = 0 THEN w
    ELSE LET prev == wolff_scan(c, sp, w, site, list, k - 1, draws)
         IN  IF wolff_adds(c, sp, prev, site, list[k], draws[k])
             THEN [prev EXCEPT !.visited = @ \cup {list[k][1]},
                               !.queue = Append(@, list[k][1])]
             ELSE prev

\* The spins after flipping the first k entries of the cluster (wolff.rs 58-60).
RECURSIVE flip_cluster(_, _, _, _, _)
flip_cluster(model, sp, cluster, axis, k) ==
    IF k = 0 THEN sp
    ELSE LET prev == flip_cluster(model, sp, cluster, axis, k - 1)
         IN  [prev EXCEPT ![cluster[k]] = flip(model, @, axis)]

\* The magnitude of a site: that of its sublattice (grid.rs 41-56).
site_magnitude(c, i) == c.spin_magnitudes[(i \div total_sites(c)) + 1]

(***************************************************************************)
(* The configurations of the Monte Carlo specification: a chain of         *)
(* ChainLen cells along x with one sublattice of magnitude 1.              *)
(***************************************************************************)
ChainLen == 3

SymRules(j) == <<Rule(0, 0, << <<1, 0, 0>>, <<-1, 0, 0>> >>, j)>>

AsymRules(j) == <<Rule(0, 0, << <<1, 0, 0>> >>, j)>>

SelfRules(j) == <<Rule(0, 0, << <<1, 0, 0>>, <<-1, 0, 0>>, <<0, 0, 0>> >>, j)>>

MixedRules(j) == <<Rule(0, 0, << <<1, 0, 0>> >>, j), Rule(0, 0, << <<-1, 0, 0>> >>, -j)>>

Couplings == {1, -1}

Algorithms == {"Metropolis", "Wolff"}

McConfig(model, algorithm, rules, periodic, t) ==
    [dim |-> <<ChainLen, 1, 1>>, sublattices |-> 1, pbc |-> <<periodic, FALSE, FALSE>>,
     exchange_params |-> rules, n_equil |-> 1, n_steps |-> 2, spin_magnitudes |-> <<1>>,
     model |-> model, algorithm |-> algorithm, t |-> t, kb |-> 1]

McConfigs ==
    {McConfig("Ising", a, r, p, t) :
        a \in Algorithms, p \in BOOLEAN, t \in {1, -1},
        r \in UNION {{SymRules(j), AsymRules(j), SelfRules(j), MixedRules(j)} : j \in Couplings}}
    \cup
    {McConfig("Heisenberg", a, r, p, 1) :
        a \in Algorithms, p \in BOOLEAN,
        r \in UNION {{SymRules(j), AsymRules(j)} : j \in Couplings}}
    \cup
    {McConfig("XY", a, SymRules(j), FALSE, 1) : a \in Algorithms, j \in Couplings}

\* The spin arrays Grid::new can return (grid.rs 41-62): aligned along an
\* axis, or every spin random.
InitialSpins(c) ==
    LET sites == 0..(spins_len(c) - 1)
    IN  {[i \in sites |-> new_aligned(c.model, ax, site_magnitude(c, i))] : ax \in {"x", "y", "z"}}
        \cup UNION {[sites -> random_spins(c.model, m)] : m \in Range(c.spin_magnitudes)}

(***************************************************************************)
(* The Monte Carlo specification: a built grid, and the steps of           *)
(* run_single_simulate (main.rs 151-173) with the samples of               *)
(* Stats::record in between.                                               *)
(***************************************************************************)
Init ==
    /\ cfg \in McConfigs
    /\ grid = grid_new(cfg, FALSE)
    /\ grid.status = "ok"
    /\ pc = "built"
    /\ steps_done = 0
    /\ spins \in InitialSpins(cfg)
    /\ spins0 = spins
    /\ mc = McIdle
    /\ measured = NoSample
    /\ stats = NoStats
    /\ sched = NoSched

\* The top of a loop iteration of run_single_simulate: mc.step is about to be called.
StepCanStart == pc = "built" /\ mc.pc = "idle"

\* wolff.rs 11-22: the seed, the axis, the empty cluster and the queue.
WolffBegin ==
    /\ StepCanStart
    /\ cfg.algorithm = "Wolff"
    /\ \E i \in 0..(grid.size - 1) : \E axis \in wolff_axes(cfg, spins, i) :
          mc' = [McIdle EXCEPT !.pc = "grow", !.index = i, !.axis = axis,
                               !.visited = {i}, !.queue = <<i>>]
    /\ spins0' = spins
    /\ measured' = NoSample
    /\ UNCHANGED <<cfg, pc, grid, steps_done, spins, aux_vars>>

\* wolff.rs 24-56: one iteration of the while loop, with the outcomes of the
\* random draws of its for loop.
WolffVisit ==
    /\ mc.pc = "grow"
    /\ mc.queue # <<>>
    /\ LET site == Head(mc.queue)
           list == grid.calc_inputs[site]
           popped == [mc EXCEPT !.queue = Tail(@), !.cluster = Append(@, site)]
       IN  \E draws \in [DOMAIN list -> BOOLEAN] :
              mc' = wolff_scan(cfg, spins, popped, site, list, Len(list), draws)
    /\ UNCHANGED <<cfg, pc, grid, steps_done, spins, spins0, measured, aux_vars>>

\* wolff.rs 58-62: the queue is empty; flip the cluster and return its length.
WolffFinish ==
    /\ mc.pc = "grow"
    /\ mc.queue = <<>>
    /\ spins' = flip_cluster(cfg.model, spins, mc.cluster, mc.axis, Len(mc.cluster))
    /\ mc' = [mc EXCEPT !.pc = "returned", !.ret = Len(mc.cluster)]
    /\ UNCHANGED <<cfg, pc, grid, steps_done, spins0, measured, aux_vars>>

\* The outcomes of `delta_e <= 0 || rng.random::<f64>() < exp(-beta * delta_e)`:
\* true when delta_e <= 0, and when beta < 0 (the exponential exceeds 1);
\* otherwise decided by the draw.
metropolis_accepts(c, delta_e) ==
    IF delta_e <= 0 \/ beta_sign(c) < 0 THEN {TRUE} ELSE BOOLEAN

\* Metropolis::step: one site, one proposal, accepted or left as it was.
MetropolisStep ==
    /\ StepCanStart
    /\ cfg.algorithm = "Metropolis"
    /\ \E i \in 0..(grid.size - 1) :
       \E proposed \in propose_perturbation(cfg.model, spins[i], site_magnitude(cfg, i)) :
          LET delta_e == energy_diff(cfg.model, proposed, grid.calc_inputs[i], spins, spins[i])
          IN  \E accepted \in metropolis_accepts(cfg, delta_e) :
                /\ spins' = IF accepted THEN [spins EXCEPT ![i] = proposed] ELSE spins
                /\ mc' = [McIdle EXCEPT !.pc = "returned", !.index = i,
                                        !.proposed = proposed, !.delta_e = delta_e,
                                        !.accepted = accepted,
                                        !.ret = IF accepted THEN 1 ELSE 0]
    /\ spins0' = spins
    /\ measured' = NoSample
    /\ UNCHANGED <<cfg, pc, grid, steps_done, aux_vars>>

\* main.rs 171-173 when step % stats_interval = 0: Stats::record (stats.rs
\* 116-124) takes the total energy of the lattice; the iteration ends.
Record ==
    /\ pc = "built"
    /\ mc.pc = "returned"
    /\ measured' = [some |-> TRUE, energy |-> total_energy(cfg.model, grid, spins)]
    /\ mc' = McIdle
    /\ spins0' = spins
    /\ UNCHANGED <<cfg, pc, grid, steps_done, spins, aux_vars>>

\* main.rs 171-173 otherwise, and main.rs 151-153 (equilibration): the
\* iteration ends without a sample.
SkipRecord ==
    /\ pc = "built"
    /\ mc.pc = "returned"
    /\ mc' = McIdle
    /\ spins0' = spins
    /\ UNCHANGED <<cfg, pc, grid, steps_done, spins, measured, aux_vars>>

Next == WolffBegin \/ WolffVisit \/ WolffFinish \/ MetropolisStep \/ Record \/ SkipRecord

Spec == Init /\ [][Next]_vars

(***************************************************************************)
(* Properties of lattice construction.                                     *)
(***************************************************************************)
SiteNumbers == 1..grid_size(cfg)

Links == exchange_links(cfg.exchange_params)

\* The resolution of link k at the n-th site.
Resolved(n, k) ==
    safe_coord_to_index(offset_coord(iproduct_site(cfg, n), Links[k].offset),
                        Links[k].to_sub, cfg.dim, cfg.sublattices, cfg.pbc)

LinkApplies(n, k) == Links[k].from_sub = iproduct_site(cfg, n)[1]

\* The resolutions of all links at the n-th site (no link where the rule
\* starts from another sublattice).
SiteTargets(links, n) ==
    LET site == iproduct_site(cfg, n)
    IN  [k \in DOMAIN links |->
            IF links[k].from_sub = site[1]
            THEN safe_coord_to_index(offset_coord(site, links[k].offset),
                                     links[k].to_sub, cfg.dim, cfg.sublattices, cfg.pbc)
            ELSE [some |-> FALSE, index |-> 0, coord |-> <<0, 0, 0>>]]

\* Two rule offsets of one site resolve to the same target index.
HasDuplicateTarget ==
    LET links == Links
    IN  \E n \in SiteNumbers :
            LET t == SiteTargets(links, n)
            IN  \E k1, k2 \in DOMAIN links :
                    k1 < k2 /\ t[k1].some /\ t[k2].some /\ t[k1].index = t[k2].index

\* C1: whenever two rule offsets of some site resolve to the same target
\* index, Grid::new ends in a panic and the run executes no Monte Carlo step.
C1_DuplicateIsFatal ==
    HasDuplicateTarget =>
        /\ steps_done = 0
        /\ pc \in {"configured", "panicked"}
        /\ grid.status \in {"none", "panic_duplicate", "panic_index"}

C1_Witness ==
    /\ HasDuplicateTarget
    /\ pc = "panicked"
    /\ grid.status = "panic_duplicate"

\* The configuration of the end-to-end test: 2x2x2, one sublattice, one rule
\* with the six nearest-neighbour offsets, periodic on all axes.
IsNearestNeighborPeriodic ==
    /\ cfg.sublattices = 1
    /\ cfg.pbc = <<TRUE, TRUE, TRUE>>
    /\ cfg.exchange_params = <<Rule(0, 0, NearestNeighbors, 1)>>

IsEndToEndConfig ==
    IsNearestNeighborPeriodic /\ cfg.dim = <<2, 2, 2>>

\* C2 as claimed: building the end-to-end lattice succeeds, so the run goes on
\* to its steps and its result.
C2_Claim ==
    (IsEndToEndConfig /\ pc # "configured") =>
        (grid.status = "ok" /\ pc \in {"built", "finished"})

\* C2 as amended: with the six nearest-neighbour offsets and periodic
\* boundaries on all axes Grid::new succeeds exactly when every axis has
\* length >= 3; on a shorter axis +1 and -1 wrap to the same site and the
\* build ends in the duplicate-neighbour panic before any step.  The 2x2x2
\* lattice is such a case.
C2_NearestNeighborBuild ==
    (IsNearestNeighborPeriodic /\ pc # "configured") =>
        IF \A i \in 1..3 : cfg.dim[i] >= 3
        THEN grid.status = "ok" /\ pc \in {"built", "finished"}
        ELSE grid.status = "panic_duplicate" /\ pc = "panicked" /\ steps_done = 0

C2_Witness ==
    /\ IsEndToEndConfig
    /\ pc = "panicked"
    /\ grid.status = "panic_duplicate"
    /\ steps_done = 0

\* C3 as claimed: for every site and rule offset, a coordinate on a periodic
\* axis resolves to its mathematical modulo in [0, dim); an out-of-range
\* coordinate on an open axis gives no link and the build goes on; and every
\* appended neighbour entry is a site index in [0, number of sites).
C3_Claim ==
    pc # "configured" =>
        /\ \A n \in SiteNumbers : \A k \in DOMAIN Links :
              LET raw == offset_coord(iproduct_site(cfg, n), Links[k].offset)
                  r == Resolved(n, k)
              IN  LinkApplies(n, k) =>
                    /\ \A i \in 1..3 :
                          (cfg.pbc[i] /\ r.some) => r.coord[i] = MathMod(raw[i], cfg.dim[i])
                    /\ \A i \in 1..3 :
                          (~cfg.pbc[i] /\ (raw[i] < 0 \/ raw[i] >= cfg.dim[i])) => ~r.some
        /\ grid.status # "panic_index"
        /\ grid.status = "ok" =>
              \A i \in DOMAIN grid.calc_inputs : \A e \in DOMAIN grid.calc_inputs[i] :
                  grid.calc_inputs[i][e][1] \in 0..(grid.size - 1)

(***************************************************************************)
(* Properties of the energy.                                               *)
(***************************************************************************)
\* The bonds of the lattice: the pairs of sites joined by a neighbour entry,
\* each pair taken once, with the strength of the entry.
Bonds ==
    UNION {{[ends |-> {i, grid.calc_inputs[i][e][1]}, j |-> grid.calc_inputs[i][e][2]] :
               e \in DOMAIN grid.calc_inputs[i]} : i \in 0..(grid.size - 1)}

\* -J * (s_i . s_j) of one bond.
bond_energy(b, sp) ==
    LET i == CHOOSE x \in b.ends : TRUE
        k == IF b.ends = {i} THEN i ELSE CHOOSE x \in b.ends : x # i
    IN  -(b.j * sv_dot(sp[i], sp[k]))

RECURSIVE bond_sum(_, _)
bond_sum(bonds, sp) ==
    IF bonds = {} THEN 0
    ELSE LET b == CHOOSE x \in bonds : TRUE
         IN  bond_energy(b, sp) + bond_sum(bonds \ {b}, sp)

\* C4 as claimed: for every lattice and every exchange rule set, the total
\* energy the engine returns (half the sum over the sites of the per-site
\* exchange energy) equals the sum of -J * (s_i . s_j) taken once over every
\* bond.
C4_Claim ==
    measured.some =>
        measured.energy.num = measured.energy.den * bond_sum(Bonds, spins)

(***************************************************************************)
(* Properties of the Wolff step.                                           *)
(***************************************************************************)
NoDuplicates(s) == \A a, b \in DOMAIN s : a # b => s[a] # s[b]

WolffReturned == cfg.algorithm = "Wolff" /\ mc.pc = "returned"

\* C7: when a Wolff step returns, no site appears twice in the cluster, every
\* cluster site holds its spin of before the step reflected once, every other
\* site holds its spin of before the step, and the returned value is the
\* number of cluster sites, between 1 and the number of lattice sites.
C7_WolffFrame ==
    WolffReturned =>
        /\ NoDuplicates(mc.cluster)
        /\ \A i \in 0..(grid.size - 1) :
              spins[i] = IF i \in Range(mc.cluster)
                         THEN flip(cfg.model, spins0[i], mc.axis)
                         ELSE spins0[i]
        /\ mc.ret = Cardinality(Range(mc.cluster))
        /\ mc.index \in Range(mc.cluster)
        /\ mc.ret >= 1
        /\ mc.ret <= grid.size

C7_Witness ==
    /\ WolffReturned
    /\ mc.ret >= 2
    /\ mc.ret < grid.size
    /\ \E i \in 0..(grid.size - 1) : spins[i] # spins0[i]

sign(x) == IF x > 0 THEN 1 ELSE IF x < 0 THEN -1 ELSE 0

\* The sign of the projection on the reflection axis that site i had when the
\* step began.
projection_sign(i) == sign(sv_dot(spins0[i], mc.axis))

\* C8 as claimed: every site added to the cluster of a Wolff step has a
\* projection on the reflection axis of the same sign as the seed's, for every
\* spin model and every sign of the coupling.
C8_Claim ==
    (cfg.algorithm = "Wolff" /\ mc.pc \in {"grow", "returned"}) =>
        \A i \in Range(mc.cluster) \cup Range(mc.queue) :
            projection_sign(i) = projection_sign(mc.index)

\* C9: during the growth of a Wolff cluster no site is in the cluster and the
\* queue together more than once, so each site enters the queue at most once
\* and at most as many sites are dequeued as the lattice has; every iteration
\* of the loop dequeues one site; and the growth ends: a step that has begun
\* returns.
C9_GrowthTerminates ==
    /\ [](mc.pc = "grow" =>
            /\ NoDuplicates(mc.cluster \o mc.queue)
            /\ Range(mc.cluster \o mc.queue) = mc.visited
            /\ mc.visited \subseteq 0..(grid.size - 1)
            /\ Len(mc.cluster) + Len(mc.queue) <= grid.size)
    /\ [][(mc.pc = "grow" /\ mc'.pc = "grow") =>
            /\ Len(mc'.cluster) = Len(mc.cluster) + 1
            /\ grid.size - Len(mc'.cluster) < grid.size - Len(mc.cluster)]_vars
    /\ ((mc.pc = "grow") ~> (mc.pc = "returned"))

C9_Witness ==
    /\ cfg.algorithm = "Wolff"
    /\ mc.pc = "grow"
    /\ mc.queue = <<>>
    /\ Len(mc.cluster) = grid.size

(***************************************************************************)
(* Properties of the Metropolis step.                                      *)
(***************************************************************************)
MetropolisReturned == cfg.algorithm = "Metropolis" /\ mc.pc = "returned"

\* The energy of the proposal at the chosen site minus the energy of the spin
\* it would replace, the rest of the lattice as before the step.
proposal_energy_difference ==
    hamiltonian_compute(cfg.model, mc.proposed, grid.calc_inputs[mc.index], spins0)
        - hamiltonian_compute(cfg.model, spins0[mc.index], grid.calc_inputs[mc.index], spins0)

\* C10: when a Metropolis step returns, at most one site differs from before
\* the step; a proposal whose energy difference is <= 0 has been accepted; an
\* accepted proposal is the only change; and after a rejection the lattice is
\* identical to the lattice before the step.
C10_MetropolisFrame ==
    MetropolisReturned =>
        /\ Cardinality({i \in 0..(grid.size - 1) : spins[i] # spins0[i]}) <= 1
        /\ proposal_energy_difference <= 0 => mc.accepted
        /\ mc.accepted => spins = [spins0 EXCEPT ![mc.index] = mc.proposed]
        /\ ~mc.accepted => spins = spins0

C10_Witness ==
    /\ MetropolisReturned
    /\ proposal_energy_difference > 0
    /\ ~mc.accepted
    /\ spins = spins0

\* The step is fair: the loops of Wolff::step and of run_single_simulate run
\* on.
SpecFair ==
    Spec /\ WF_vars(WolffVisit) /\ WF_vars(WolffFinish)

(***************************************************************************)
(* The configuration specification: Config::new on a raw configuration     *)
(* (config/raw_config.rs, config/internal.rs), then Grid::new and the      *)
(* steps of run_single_simulate.                                           *)
(***************************************************************************)
NoAnisotropy == [some |-> FALSE, saxis |-> <<>>, strength |-> <<>>]

Anisotropy(saxis, strength) == [some |-> TRUE, saxis |-> saxis, strength |-> strength]

\* The [anisotropy] tables of the raw configurations: none, one axis per
\* sublattice, a zero axis, and lists of the wrong lengths.
RawAnisotropies ==
    {NoAnisotropy,
     Anisotropy(<< <<0, 0, 2>> >>, <<1>>),
     Anisotropy(<< <<0, 0, 0>> >>, <<1>>),
     Anisotropy(<< <<0, 0, 1>> >>, <<1, 1>>),
     Anisotropy(<< <<0, 0, 1>>, <<1, 0, 0>> >>, <<1, 1>>)}

\* RawConfig as deserialized: the options of simulation.algorithm, of
\* [anisotropy], [zeeman] and [[dm]]; anisotropy_params and algorithm are
\* the fields Config::new fills.
RawConfigs ==
    {[McConfig(m, "unset", SymRules(1), FALSE, 1) EXCEPT !.n_equil = 1] @@
        [raw_algorithm |-> a, anisotropy |-> an, zeeman_some |-> z, dm_some |-> d,
         anisotropy_params |-> <<>>] :
        m \in {"Ising"}, a \in {"none", "Metropolis", "Wolff"},
        an \in RawAnisotropies, z \in BOOLEAN, d \in BOOLEAN}

\* RawConfig::validate_anistropy: Ok (TRUE) or an error (FALSE).
validate_anistropy(raw) ==
    raw.anisotropy.some =>
        /\ Len(raw.anisotropy.saxis) = Len(raw.anisotropy.strength)
        /\ Len(raw.anisotropy.strength) = raw.sublattices

\* The Euclidean norm of an axis with integer components along one axis.
saxis_norm(v) ==
    LET sq == v[1] * v[1] + v[2] * v[2] + v[3] * v[3]
    IN  CHOOSE n \in 0..sq : n * n = sq

\* Config::resolve_anisotropy: an error on a zero axis, else the normalised
\* axes with their strengths.
resolve_anisotropy(raw) ==
    LET an == raw.anisotropy
        n == IF Len(an.saxis) < Len(an.strength) THEN Len(an.saxis) ELSE Len(an.strength)
    IN  IF ~an.some THEN [ok |-> TRUE, params |-> <<>>]
        ELSE IF \E i \in 1..n : saxis_norm(an.saxis[i]) = 0
        THEN [ok |-> FALSE, params |-> <<>>]
        ELSE [ok |-> TRUE,
              params |-> [i \in 1..n |->
                            [saxis |-> [k \in 1..3 |->
                                          an.saxis[i][k] \div saxis_norm(an.saxis[i])],
                             strength |-> an.strength[i]]]]

\* simulation.algorithm.unwrap_or(Algorithm::Wolff).
resolve_algorithm(raw) ==
    IF raw.raw_algorithm = "none" THEN "Wolff" ELSE raw.raw_algorithm

\* Whether Hamiltonian::compute reaches an unimplemented!() term with the
\* HamiltonianConfig of the grid.
compute_panics ==
    grid_hamiltonian.zeeman_enable \/ grid_hamiltonian.anisotropy_enable
        \/ grid_hamiltonian.dm_enable

InitConfig ==
    /\ cfg \in RawConfigs
    /\ pc = "raw"
    /\ grid = NoGrid
    /\ steps_done = 0
    /\ spins = <<>>
    /\ spins0 = <<>>
    /\ mc = McIdle
    /\ measured = NoSample
    /\ stats = NoStats
    /\ sched = NoSched

\* Config::new: RawConfig::validate, resolve_anisotropy, the default of the
\* algorithm.  [zeeman] and [[dm]] are not read.
ConfigNew ==
    /\ pc = "raw"
    /\ IF validate_anistropy(cfg) /\ resolve_anisotropy(cfg).ok
       THEN /\ cfg' = [cfg EXCEPT !.anisotropy_params = resolve_anisotropy(cfg).params,
                                  !.algorithm = resolve_algorithm(cfg)]
            /\ pc' = "configured"
       ELSE /\ cfg' = cfg
            /\ pc' = "config_error"
    /\ UNCHANGED <<grid, steps_done, mc_vars, aux_vars>>

\* Grid::new on the resolved configuration (main.rs 94-121): the grid with
\* its spins; the Hamiltonian has the exchange term alone.
ConfigGridNew ==
    /\ pc = "configured"
    /\ cfg.algorithm # "unset"
    /\ grid' = grid_new(cfg, FALSE)
    /\ grid'.status = "ok"
    /\ spins' \in InitialSpins(cfg)
    /\ spins0' = spins'
    /\ pc' = IF compute_panics THEN "panicked" ELSE "built"
    /\ UNCHANGED <<cfg, steps_done, mc, measured, aux_vars>>

NextConfig == ConfigNew \/ ConfigGridNew \/ Next

SpecConfig == InitConfig /\ [][NextConfig]_vars

SelectsTerm == cfg.anisotropy.some \/ cfg.zeeman_some \/ cfg.dm_some

\* C5 as claimed: a configuration that selects an anisotropy, Zeeman or
\* Dzyaloshinskii-Moriya term ends in a configuration error: no grid is
\* built, no step runs, no energy is sampled with the term left out, and the
\* energy evaluation does not panic.
C5_Claim ==
    (SelectsTerm /\ pc # "raw") =>
        /\ pc = "config_error"
        /\ grid = NoGrid
        /\ ~measured.some
        /\ ~compute_panics

\* C6 as claimed: with the algorithm Wolff, explicit or by default, and an
\* [anisotropy] table in the configuration, no Wolff step begins and the run
\* does not get as far as the step loop.
C6_Claim ==
    (cfg.anisotropy.some /\ resolve_algorithm(cfg) = "Wolff") =>
        /\ mc.pc = "idle"
        /\ spins = spins0
        /\ mc.ret = 0

(***************************************************************************)
(* The run specification: the two loops of run_single_simulate (main.rs    *)
(* 151-173) around mc.step and Stats::record.  pc is the loop and its      *)
(* index; stats holds Stats.steps and, as history, the steps of each loop   *)
(* and the indices after which a sample was recorded.                      *)
(***************************************************************************)
MaxSteps == 3       \* n_equil and n_steps are in 0..MaxSteps
MaxInterval == 3    \* stats_interval is in 0..MaxInterval

RunConfigs ==
    [n_equil : 0..MaxSteps, n_steps : 0..MaxSteps, stats_interval : 0..MaxInterval]

\* Stats::new: no sample yet.
RunStats == [some |-> TRUE, steps |-> 0, equil_steps |-> 0, prod_steps |-> 0, log |-> <<>>]

\* `step % run_config.stats_interval == 0` with the 1-based number of the step.
records_at_one_based(step, interval) == RustRem(step + 1, interval) = 0

\* `step % run_config.stats_interval == 0` (main.rs 171), for interval > 0.
records_at(step, interval) == RustRem(step, interval) = 0

InitRun ==
    /\ cfg \in RunConfigs
    /\ pc = [loop |-> "equil", step |-> 0]
    /\ grid = NoGrid
    /\ steps_done = 0
    /\ spins = <<>>
    /\ spins0 = <<>>
    /\ mc = McIdle
    /\ measured = NoSample
    /\ stats = RunStats
    /\ sched = NoSched

\* One iteration of the equilibration loop (main.rs 151-162): mc.step.
EquilStep ==
    /\ pc.loop = "equil"
    /\ pc.step < cfg.n_equil
    /\ steps_done' = steps_done + 1
    /\ stats' = [stats EXCEPT !.equil_steps = @ + 1]
    /\ pc' = [pc EXCEPT !.step = @ + 1]
    /\ UNCHANGED <<cfg, grid, mc_vars, sched>>

\* The equilibration loop ends; the production loop begins.
EquilDone ==
    /\ pc.loop = "equil"
    /\ pc.step = cfg.n_equil
    /\ pc' = [loop |-> "production", step |-> 0]
    /\ UNCHANGED <<cfg, grid, steps_done, mc_vars, aux_vars>>

\* One iteration of the production loop (main.rs 169-173): mc.step, then
\* the remainder, which panics on a zero interval, then Stats::record.
ProductionStep ==
    /\ pc.loop = "production"
    /\ pc.step < cfg.n_steps
    /\ steps_done' = steps_done + 1
    /\ IF cfg.stats_interval = 0
       THEN /\ pc' = [pc EXCEPT !.loop = "panicked"]
            /\ stats' = [stats EXCEPT !.prod_steps = @ + 1]
       ELSE /\ pc' = [pc EXCEPT !.step = @ + 1]
            /\ stats' = IF records_at(pc.step, cfg.stats_interval)
                        THEN [stats EXCEPT !.prod_steps = @ + 1, !.steps = @ + 1,
                                           !.log = Append(@, pc.step)]
                        ELSE [stats EXCEPT !.prod_steps = @ + 1]
    /\ UNCHANGED <<cfg, grid, mc_vars, sched>>

\* The production loop ends: stats.result() (main.rs 203).
RunFinish ==
    /\ pc.loop = "production"
    /\ pc.step = cfg.n_steps
    /\ pc' = [pc EXCEPT !.loop = "finished"]
    /\ UNCHANGED <<cfg, grid, steps_done, mc_vars, aux_vars>>

NextRun == EquilStep \/ EquilDone \/ ProductionStep \/ RunFinish

SpecRun == InitRun /\ [][NextRun]_vars

\* The 0-based production indices below n that are multiples of the interval.
SampledIndices(n, interval) ==
    SelectSeq([k \in 1..n |-> k - 1], LAMBDA i : i % interval = 0)

MaxTemps == 3       \* an explicit temperature list has 0..MaxTemps entries
MaxThreads == 2     \* num_threads is in 1..MaxThreads

None == [some |-> FALSE, v |-> 0]

Some(x) == [some |-> TRUE, v |-> x]

\* The sequences over S of length 0..n.
SeqsUpTo(S, n) == UNION {[1..k -> S] : k \in 0..n}

\* The [simulation] tables: a list alone, a list with one of the triple, and
\* every way of giving or leaving out temp_start, temp_end and temp_step.
RawSimulations ==
    {[temperatures |-> Some(l), temp_start |-> None, temp_end |-> None,
      temp_step |-> None, num_threads |-> n, kb |-> 1] :
        l \in SeqsUpTo({0, 1, 2}, MaxTemps), n \in 1..MaxThreads}
    \cup
    {[temperatures |-> Some(<<1, 2>>), temp_start |-> a, temp_end |-> b,
      temp_step |-> c, num_threads |-> 1, kb |-> 1] :
        a \in {None, Some(1)}, b \in {None, Some(2)}, c \in {None, Some(1)}}
    \cup
    {[temperatures |-> None, temp_start |-> a, temp_end |-> b,
      temp_step |-> c, num_threads |-> MaxThreads, kb |-> 1] :
        a \in {None, Some(-1), Some(1)}, b \in {None, Some(0), Some(MaxTemps - 1)},
        c \in {None, Some(-1), Some(0), Some(1)}}

\* The loop `while t <= end + 1e-8 { vec.push(t); t += step; }` on whole
\* numbers, for step > 0.
RECURSIVE temperature_range(_, _, _)
temperature_range(t, end, step) ==
    IF t <= end THEN <<t>> \o temperature_range(t + step, end, step) ELSE <<>>

\* Config::resolve_temperatures: Ok(list), Err, or no return: with
\* step <= 0 and start <= end the loop condition stays true and the vector
\* grows without end.
resolve_temperatures(sim) ==
    IF sim.temperatures.some
          /\ (sim.temp_start.some \/ sim.temp_end.some \/ sim.temp_step.some)
    THEN [status |-> "err", list |-> <<>>]
    ELSE IF sim.temperatures.some
    THEN [status |-> "ok", list |-> sim.temperatures.v]
    ELSE IF sim.temp_start.some /\ sim.temp_end.some /\ sim.temp_step.some
    THEN IF sim.temp_step.v <= 0 /\ sim.temp_start.v <= sim.temp_end.v
         THEN [status |-> "diverges", list |-> <<>>]
         ELSE [status |-> "ok",
               list |-> temperature_range(sim.temp_start.v, sim.temp_end.v, sim.temp_step.v)]
    ELSE [status |-> "err", list |-> <<>>]

\* beta = 1. / (run_config.kb * t) (main.rs 133) as a fraction; a zero
\* denominator stands for the infinity of the f64 division.
beta_of(kb, t) == [num |-> 1, den |-> kb * t]

\* The Vec the parallel collect returns, given the closure results by the
\* position of their temperature and the order in which they finished: the
\* results in the order of completion.
collect_in_finish_order(results, finished) ==
    [k \in 1..Len(finished) |-> results[finished[k]]]

\* The Vec the parallel collect returns (main.rs 121): the item of the k-th
\* temperature at position k.
collect(results, finished) ==
    [k \in 1..Len(results) |-> results[k]]

InitSchedule ==
    /\ cfg \in RawSimulations
    /\ pc = "raw"
    /\ grid = NoGrid
    /\ steps_done = 0
    /\ spins = <<>>
    /\ spins0 = <<>>
    /\ mc = McIdle
    /\ measured = NoSample
    /\ stats = NoStats
    /\ sched = NoSched

\* Config::new as far as the temperatures go.
ResolveTemperatures ==
    /\ pc = "raw"
    /\ LET r == resolve_temperatures(cfg)
       IN  /\ pc' = CASE r.status = "ok" -> "resolved"
                      [] r.status = "err" -> "config_error"
                      [] r.status = "diverges" -> "diverged"
           /\ sched' = [some |-> TRUE, temperatures |-> r.list,
                        task |-> [i \in 1..Len(r.list) |-> "pending"],
                        results |-> [i \in 1..Len(r.list) |-> None],
                        started |-> <<>>, finished |-> <<>>,
                        collected |-> <<>>, file |-> <<>>]
    /\ UNCHANGED <<cfg, grid, steps_done, mc_vars, stats>>

Running == {i \in DOMAIN sched.task : sched.task[i] = "running"}

\* A worker of the pool takes the closure of one temperature: Grid::new and
\* the beginning of run_single_simulate, which computes beta.
TaskStart ==
    /\ pc = "resolved"
    /\ Cardinality(Running) < cfg.num_threads
    /\ \E i \in DOMAIN sched.task :
          /\ sched.task[i] = "pending"
          /\ sched' = [sched EXCEPT !.task[i] = "running",
                                    !.started = Append(@, i)]
    /\ UNCHANGED <<cfg, pc, grid, steps_done, mc_vars, stats>>

\* The closure of one temperature returns its StatResult.
TaskFinish ==
    /\ pc = "resolved"
    /\ \E i \in Running :
          sched' = [sched EXCEPT
                       !.task[i] = "done",
                       !.results[i] = Some([t |-> sched.temperatures[i],
                                            beta |-> beta_of(cfg.kb, sched.temperatures[i])]),
                       !.finished = Append(@, i)]
    /\ UNCHANGED <<cfg, pc, grid, steps_done, mc_vars, stats>>

\* collect(): every closure has returned.
Collect ==
    /\ pc = "resolved"
    /\ \A i \in DOMAIN sched.task : sched.task[i] = "done"
    /\ sched' = [sched EXCEPT !.collected = collect(sched.results, sched.finished)]
    /\ pc' = "collected"
    /\ UNCHANGED <<cfg, grid, steps_done, mc_vars, stats>>

\* run (main.rs 61-71): the header line, then one line per result.
WriteFile ==
    /\ pc = "collected"
    /\ sched' = [sched EXCEPT
                    !.file = <<"header">> \o
                             [k \in 1..Len(sched.collected) |-> sched.collected[k].v]]
    /\ pc' = "written"
    /\ UNCHANGED <<cfg, grid, steps_done, mc_vars, stats>>

NextSchedule == ResolveTemperatures \/ TaskStart \/ TaskFinish \/ Collect \/ WriteFile

SpecSchedule == InitSchedule /\ [][NextSchedule]_vars

\* C12: the collected vector has one result per temperature, the k-th for
\* the k-th temperature, and the written file is one header line followed by
\* those results in the order of the temperature list, whatever the number
\* of threads and the order in which the closures started and finished.
C12_OrderedResults ==
    /\ pc \in {"collected", "written"} =>
          /\ Len(sched.collected) = Len(sched.temperatures)
          /\ \A k \in DOMAIN sched.collected :
                sched.collected[k].some /\ sched.collected[k].v.t = sched.temperatures[k]
    /\ pc = "written" =>
          /\ Len(sched.file) = Len(sched.temperatures) + 1
          /\ sched.file[1] = "header"
          /\ \A k \in DOMAIN sched.temperatures :
                sched.file[k + 1].t = sched.temperatures[k]

C12_Witness ==
    /\ pc = "written"
    /\ Len(sched.temperatures) = 3
    /\ sched.temperatures[1] # sched.temperatures[3]
    /\ sched.finished = <<3, 1, 2>>
    /\ sched.started # <<1, 2, 3>>
    /\ cfg.num_threads = 2

(***************************************************************************)
(* monte_carlo/stats.rs: Stats.  An f64 is kept exact as a fraction        *)
(* [num, den] in lowest terms with den > 0; den = 0 stands for the         *)
(* non-finite result of a division by zero (an infinity or NaN), which     *)
(* every later operation hands on.                                         *)
(***************************************************************************)
Abs(x) == IF x < 0 THEN -x ELSE x

RECURSIVE Gcd(_, _)
Gcd(a, b) == IF b = 0 THEN a ELSE Gcd(b, a % b)

NaN == [num |-> 0, den |-> 0]

Rat(n, d) ==
    IF d = 0 THEN NaN
    ELSE LET g == Gcd(Abs(n), Abs(d))
             sgn == IF d < 0 THEN -1 ELSE 1
         IN  [num |-> sgn * (n \div g), den |-> sgn * (d \div g)]

Int2Rat(n) == [num |-> n, den |-> 1]

IsFinite(a) == a.den # 0

RatAdd(a, b) ==
    IF IsFinite(a) /\ IsFinite(b) THEN Rat(a.num * b.den + b.num * a.den, a.den * b.den) ELSE NaN

RatSub(a, b) ==
    IF IsFinite(a) /\ IsFinite(b) THEN Rat(a.num * b.den - b.num * a.den, a.den * b.den) ELSE NaN

RatMul(a, b) ==
    IF IsFinite(a) /\ IsFinite(b) THEN Rat(a.num * b.num, a.den * b.den) ELSE NaN

RatDiv(a, b) ==
    IF IsFinite(a) /\ IsFinite(b) THEN Rat(a.num * b.den, a.den * b.num) ELSE NaN

RatAbs(a) == [num |-> Abs(a.num), den |-> a.den]

\* a <= b on f64: false as soon as one side is not a number.
RatLe(a, b) == IsFinite(a) /\ IsFinite(b) /\ a.num * b.den <= b.num * a.den

RatLt(a, b) == IsFinite(a) /\ IsFinite(b) /\ a.num * b.den < b.num * a.den

\* SpinVector::norm and SpinVector::norm_sqr of SpinVector::Ising.
sv_norm(v) == Abs(v[1])

sv_norm_sqr(v) == v[1] * v[1]

\* Grid::total_spin_vector: the sum of the spin vectors of all sites.
total_spin_vector(sp) == <<SumSeq([n \in 1..Cardinality(DOMAIN sp) |-> sp[n - 1][1]])>>

\* StatsConfig: the six observables.
StatsConfigs ==
    [energy : BOOLEAN, heat_capacity : BOOLEAN, magnetization : BOOLEAN,
     susceptibility : BOOLEAN, magnetization_abs : BOOLEAN, susceptibility_abs : BOOLEAN]

\* Stats::new.
stats_new(sc, c, t) ==
    [some |-> TRUE, energy_sum |-> Int2Rat(0), energy2_sum |-> Int2Rat(0),
     m_sum |-> <<0>>, m_2_sum |-> 0, m_abs_sum |-> 0, steps |-> 0,
     size |-> grid_size(c), kb |-> c.kb, t |-> t, stats_config |-> sc,
     log |-> <<>>, result |-> None]

\* The squared norm is added for the susceptibility alone.
accumulates_m_2_susceptibility_only(sc) == sc.susceptibility

\* The conditions of the three additions of Stats::record (lines 133-142).
accumulates_m_sum(sc) == sc.magnetization \/ sc.susceptibility

accumulates_m_abs(sc) == sc.magnetization_abs \/ sc.susceptibility_abs

accumulates_m_2(sc) == sc.susceptibility \/ sc.susceptibility_abs

\* Stats::record on a lattice whose total energy is `energy` and whose total
\* spin vector is `spin_vec`; the log is the history of the samples.
stats_record(st, energy, spin_vec) ==
    LET sc == st.stats_config
        family == sc.magnetization \/ sc.susceptibility
                     \/ sc.magnetization_abs \/ sc.susceptibility_abs
    IN  [st EXCEPT
           !.energy_sum = IF sc.energy THEN RatAdd(@, energy) ELSE @,
           !.energy2_sum = IF sc.energy /\ sc.heat_capacity
                           THEN RatAdd(@, RatMul(energy, energy)) ELSE @,
           !.m_sum = IF family /\ accumulates_m_sum(sc) THEN <<@[1] + spin_vec[1]>> ELSE @,
           !.m_abs_sum = IF family /\ accumulates_m_abs(sc) THEN @ + sv_norm(spin_vec) ELSE @,
           !.m_2_sum = IF family /\ accumulates_m_2(sc) THEN @ + sv_norm_sqr(spin_vec) ELSE @,
           !.steps = @ + 1,
           !.log = Append(@, [energy |-> energy, spin_vec |-> spin_vec])]

\* `&self.m_sum / self.steps as f64` panics on a zero divisor (spin/mod.rs
\* 105-108); Stats::result divides so for magnetization and susceptibility.
result_panics(st) ==
    st.steps = 0 /\ (st.stats_config.magnetization \/ st.stats_config.susceptibility)

\* Stats::result: each observable as Some(value) or None.
stats_result(st) ==
    LET sc == st.stats_config
        n == Int2Rat(st.steps)
        size == Int2Rat(st.size)
        kbt == Int2Rat(st.kb * st.t)
        kbtt == Int2Rat(st.kb * st.t * st.t)
        e_avg == RatDiv(st.energy_sum, n)
        e2_avg == RatDiv(st.energy2_sum, n)
        m_avg == RatDiv(Int2Rat(st.m_sum[1]), n)
        m2_avg == RatDiv(Int2Rat(st.m_2_sum), n)
        m_abs_avg == RatDiv(Int2Rat(st.m_abs_sum), n)
    IN  [t |-> st.t,
         energy |-> IF sc.energy THEN Some(RatDiv(e_avg, size)) ELSE None,
         specific_heat |->
            IF sc.heat_capacity
            THEN Some(RatDiv(RatDiv(RatSub(e2_avg, RatMul(e_avg, e_avg)), kbtt), size))
            ELSE None,
         magnetization |->
            IF sc.magnetization THEN Some(RatDiv(RatAbs(m_avg), size)) ELSE None,
         susceptibility |->
            IF sc.susceptibility
            THEN Some(RatDiv(RatDiv(RatSub(m2_avg, RatMul(m_avg, m_avg)), kbt), size))
            ELSE None,
         magnetization_abs |->
            IF sc.magnetization_abs THEN Some(RatDiv(m_abs_avg, size)) ELSE None,
         susceptibility_abs |->
            IF sc.susceptibility_abs
            THEN Some(RatDiv(RatDiv(RatSub(m2_avg, RatMul(m_abs_avg, m_abs_avg)), kbt), size))
            ELSE None]

(***************************************************************************)
(* The statistics specification: Stats::new, Stats::record on the lattices *)
(* the steps leave behind, and Stats::result, for every choice of the      *)
(* observables.                                                            *)
(***************************************************************************)
MaxSamples == 2     \* at most MaxSamples samples are recorded

\* Temperatures of the runs: Config::resolve_temperatures accepts any number.
StatsTemperatures == {-1, 2}

StatsRunConfigs ==
    {McConfig("Ising", "Metropolis", SymRules(1), FALSE, t) @@ [stats_config |-> sc] :
        t \in StatsTemperatures, sc \in StatsConfigs}

\* Lattices at the time of a sample: all spins up, all down, site 0 reversed.
SampleSpins(c) ==
    LET sites == 0..(spins_len(c) - 1)
    IN  {[i \in sites |-> <<1>>], [i \in sites |-> <<-1>>],
         [i \in sites |-> IF i = 0 THEN <<-1>> ELSE <<1>>]}

\* Grid::total_energy as a fraction in lowest terms.
total_energy_value(model, g, sp) ==
    LET e == total_energy(model, g, sp) IN Rat(e.num, e.den)

InitStats ==
    /\ cfg \in StatsRunConfigs
    /\ pc = "sampling"
    /\ grid = grid_new(cfg, FALSE)
    /\ steps_done = 0
    /\ spins \in SampleSpins(cfg)
    /\ spins0 = spins
    /\ mc = McIdle
    /\ measured = NoSample
    /\ stats = stats_new(cfg.stats_config, cfg, cfg.t)
    /\ sched = NoSched

\* The steps since the last sample leave a lattice; stats.record(grid).
StatsRecord ==
    /\ pc = "sampling"
    /\ stats.steps < MaxSamples
    /\ \E sp \in SampleSpins(cfg) :
          /\ spins' = sp
          /\ stats' = stats_record(stats, total_energy_value(cfg.model, grid, sp),
                                   total_spin_vector(sp))
    /\ UNCHANGED <<cfg, pc, grid, steps_done, spins0, mc, measured, sched>>

\* stats.result() at the end of run_single_simulate.
StatsResult ==
    /\ pc = "sampling"
    /\ IF result_panics(stats)
       THEN pc' = "panicked" /\ stats' = stats
       ELSE pc' = "result" /\ stats' = [stats EXCEPT !.result = Some(stats_result(stats))]
    /\ UNCHANGED <<cfg, grid, steps_done, mc_vars, sched>>

NextStats == StatsRecord \/ StatsResult

SpecStats == InitStats /\ [][NextStats]_vars

\* Sums over the history of the samples.
RECURSIVE RatSumSeq(_)
RatSumSeq(s) == IF s = <<>> THEN Int2Rat(0) ELSE RatAdd(Head(s), RatSumSeq(Tail(s)))

LogSum(F(_)) == RatSumSeq([k \in DOMAIN stats.log |-> F(stats.log[k])])

SampleEnergy(x) == x.energy

SampleEnergySqr(x) == RatMul(x.energy, x.energy)

SampleM(x) == Int2Rat(x.spin_vec[1])

SampleNorm(x) == Int2Rat(Abs(x.spin_vec[1]))

SampleNormSqr(x) == Int2Rat(x.spin_vec[1] * x.spin_vec[1])

LogMean(F(_)) == RatDiv(LogSum(F), Int2Rat(Len(stats.log)))

\* (<E^2> - <E>^2) / (k_B T^2) / N over the recorded samples.
LogSpecificHeat ==
    RatDiv(RatDiv(RatSub(LogMean(SampleEnergySqr),
                         RatMul(LogMean(SampleEnergy), LogMean(SampleEnergy))),
                  Int2Rat(cfg.kb * cfg.t * cfg.t)),
           Int2Rat(grid.size))

HasResult == pc = "result" /\ stats.result.some

\* C13 as claimed: with the heat capacity enabled, the finalized specific
\* heat is (<E^2> - <E>^2) / (k_B T^2) / N of the total energies of the
\* recorded samples, whether or not the energy observable is enabled.
C13_Claim ==
    (HasResult /\ cfg.stats_config.heat_capacity /\ Len(stats.log) >= 1) =>
        stats.result.v.specific_heat = Some(LogSpecificHeat)

ObservableSet == cfg.stats_config

\* C14: for every combination of the magnetization-family observables, each
\* running sum that the formula of an enabled observable reads holds the sum
\* over all recorded samples (the vector sum for magnetization and
\* susceptibility, the norm sum for magnetization_abs and susceptibility_abs,
\* the squared-norm sum for both susceptibilities), and each enabled
\* observable of the result is its formula over the recorded samples.
C14_SumsAccumulated ==
    pc \in {"sampling", "result"} =>
        /\ stats.steps = Len(stats.log)
        /\ (ObservableSet.magnetization \/ ObservableSet.susceptibility) =>
              Int2Rat(stats.m_sum[1]) = LogSum(SampleM)
        /\ (ObservableSet.magnetization_abs \/ ObservableSet.susceptibility_abs) =>
              Int2Rat(stats.m_abs_sum) = LogSum(SampleNorm)
        /\ (ObservableSet.susceptibility \/ ObservableSet.susceptibility_abs) =>
              Int2Rat(stats.m_2_sum) = LogSum(SampleNormSqr)
        /\ HasResult =>
              LET res == stats.result.v
                  size == Int2Rat(grid.size)
                  kbt == Int2Rat(cfg.kb * cfg.t)
              IN  /\ ObservableSet.magnetization =>
                        res.magnetization = Some(RatDiv(RatAbs(LogMean(SampleM)), size))
                  /\ ObservableSet.magnetization_abs =>
                        res.magnetization_abs = Some(RatDiv(LogMean(SampleNorm), size))
                  /\ ObservableSet.susceptibility =>
                        res.susceptibility =
                            Some(RatDiv(RatDiv(RatSub(LogMean(SampleNormSqr),
                                                      RatMul(LogMean(SampleM), LogMean(SampleM))),
                                               kbt), size))
                  /\ ObservableSet.susceptibility_abs =>
                        res.susceptibility_abs =
                            Some(RatDiv(RatDiv(RatSub(LogMean(SampleNormSqr),
                                                      RatMul(LogMean(SampleNorm),
                                                             LogMean(SampleNorm))),
                                               kbt), size))

C14_Witness ==
    /\ HasResult
    /\ ObservableSet.susceptibility_abs
    /\ ~ObservableSet.susceptibility
    /\ ~ObservableSet.magnetization
    /\ ~ObservableSet.magnetization_abs
    /\ Len(stats.log) = 2
    /\ stats.log[1].spin_vec # stats.log[2].spin_vec
    /\ stats.m_2_sum > 0
    /\ stats.m_abs_sum > 0

\* C15 as claimed: with all four observables enabled, the magnetization (the
\* norm of the averaged total spin vector, from m_sum) is at most the
\* magnetization_abs (the average of the norms, from m_abs_sum), the
\* susceptibility is at least the susceptibility_abs, and the two
\* magnetizations differ when two samples have opposite total spin vectors.
C15_Claim ==
    (/\ HasResult
     /\ Len(stats.log) >= 1
     /\ ObservableSet.magnetization /\ ObservableSet.magnetization_abs
     /\ ObservableSet.susceptibility /\ ObservableSet.susceptibility_abs) =>
        LET res == stats.result.v
        IN  /\ RatLe(res.magnetization.v, res.magnetization_abs.v)
            /\ RatLe(res.susceptibility_abs.v, res.susceptibility.v)
            /\ (\E a, b \in DOMAIN stats.log :
                    stats.log[a].spin_vec[1] * stats.log[b].spin_vec[1] < 0) =>
                  RatLt(res.magnetization.v, res.magnetization_abs.v)

(***************************************************************************)
(* Neighbour counts of a built lattice (grid.rs 71-104).                   *)
(***************************************************************************)
\* The index under which the site loop stores the n-th site's inputs (line 75).
SiteIndex(n) ==
    LET site == iproduct_site(cfg, n)
    IN  coord_to_index(<<site[2], site[3], site[4]>>, site[1], cfg.dim)

\* exchange_neighbors.len() of the n-th site.
NeighborEntries(g, n) == Len(g.calc_inputs[SiteIndex(n)])

\* The number of offsets in the rules whose from-sublattice is the n-th site's.
RuleOffsets(n) == Cardinality({k \in DOMAIN Links : LinkApplies(n, k)})

\* Link k, taken from the n-th site, leads to a cell outside the lattice.
LinkLeaves(n, k) ==
    /\ LinkApplies(n, k)
    /\ LET t == offset_coord(iproduct_site(cfg, n), Links[k].offset)
       IN  \E i \in 1..3 : t[i] < 0 \/ t[i] >= cfg.dim[i]

\* The n-th site lies on the surface of the lattice.
IsSurface(n) ==
    LET site == iproduct_site(cfg, n)
    IN  \E i \in 1..3 : site[i + 1] = 0 \/ site[i + 1] = cfg.dim[i] - 1

FullyPeriodic == cfg.pbc = <<TRUE, TRUE, TRUE>>

FullyOpen == cfg.pbc = <<FALSE, FALSE, FALSE>>

\* What Grid::new builds from the same configuration with all axes periodic.
PeriodicGrid == grid_new([cfg EXCEPT !.pbc = <<TRUE, TRUE, TRUE>>], FALSE)

\* C16 as claimed: on a built lattice that is periodic on all three axes,
\* every site of sublattice s has exactly as many neighbour entries as there
\* are offsets in the exchange rules whose from-sublattice is s.
C16_Claim ==
    (grid.status = "ok" /\ FullyPeriodic) =>
        \A n \in SiteNumbers : NeighborEntries(grid, n) = RuleOffsets(n)

\* C17 as claimed: on a built lattice that is open on all three axes, every
\* surface site has strictly fewer neighbour entries than the same site has
\* when the lattice is built with all axes periodic.
C17_Claim ==
    (grid.status = "ok" /\ FullyOpen /\ PeriodicGrid.status = "ok") =>
        \A n \in SiteNumbers :
            IsSurface(n) => NeighborEntries(grid, n) < NeighborEntries(PeriodicGrid, n)

\* C17 as amended: on a built lattice that is open on all three axes, no
\* site has more neighbour entries than there are offsets in the rules from
\* its sublattice, and a site has strictly fewer whenever one of those
\* offsets leads outside the lattice from it; with the six nearest-neighbour
\* offsets that is every surface site.  A surface site none of whose offsets
\* leaves the lattice loses no entry to the boundary.
C17_OpenSurface ==
    (grid.status = "ok" /\ FullyOpen) =>
        \A n \in SiteNumbers :
            /\ NeighborEntries(grid, n) <= RuleOffsets(n)
            /\ (\E k \in DOMAIN Links : LinkLeaves(n, k)) =>
                  NeighborEntries(grid, n) < RuleOffsets(n)
            /\ NeighborEntries(grid, n) =
                  Cardinality({k \in DOMAIN Links :
                                  LinkApplies(n, k) /\ ~LinkLeaves(n, k) /\ Resolved(n, k).some})
            /\ (cfg.exchange_params = <<Rule(0, 0, NearestNeighbors, 1)>> /\ IsSurface(n)) =>
                  NeighborEntries(grid, n) < RuleOffsets(n)

\* A built open lattice with a surface site that lost an entry to the
\* boundary and a surface site that lost none.
C17_Witness ==
    /\ grid.status = "ok"
    /\ FullyOpen
    /\ \E n \in SiteNumbers :
          /\ IsSurface(n)
          /\ \E k \in DOMAIN Links : LinkLeaves(n, k)
          /\ NeighborEntries(grid, n) < RuleOffsets(n)
    /\ \E n \in SiteNumbers :
          /\ IsSurface(n)
          /\ RuleOffsets(n) >= 1
          /\ NeighborEntries(grid, n) = RuleOffsets(n)

(***************************************************************************)
(* Properties of temperature resolution.                                   *)
(***************************************************************************)
TripleGiven == cfg.temp_start.some /\ cfg.temp_end.some /\ cfg.temp_step.some

TripleTouched == cfg.temp_start.some \/ cfg.temp_end.some \/ cfg.temp_step.some

\* The configuration names a temperature <= 0: in its list, or as a value
\* the triple generates (the first generated value is temp_start, and it is
\* the smallest one when temp_step > 0).
HasNonPositiveTemperature ==
    \/ cfg.temperatures.some /\ \E k \in DOMAIN cfg.temperatures.v : cfg.temperatures.v[k] <= 0
    \/ ~cfg.temperatures.some /\ TripleGiven
          /\ cfg.temp_start.v <= cfg.temp_end.v /\ cfg.temp_start.v <= 0

\* C18 as claimed: a configuration with a temperature <= 0 is rejected by
\* Config::new, so no closure starts and none computes beta with T <= 0.
C18_Claim ==
    (HasNonPositiveTemperature /\ pc # "raw") =>
        /\ pc = "config_error"
        /\ sched.started = <<>>
        /\ \A i \in DOMAIN sched.results :
              sched.results[i].some => sched.results[i].v.t > 0

\* C19 as claimed: resolution is an error, and no closure starts, when a
\* list comes with any of temp_start, temp_end, temp_step, when nothing is
\* given, and when only one or two of the three are given; in every other
\* case it returns a temperature list.
C19_Claim ==
    pc # "raw" =>
        IF \/ cfg.temperatures.some /\ TripleTouched
           \/ ~cfg.temperatures.some /\ ~TripleGiven
        THEN pc = "config_error" /\ sched.started = <<>>
        ELSE pc \in {"resolved", "collected", "written"}

(***************************************************************************)
(* Groups of sublattices: RawConfig::validate (raw_config.rs 133-198),     *)
(* Config::new (internal.rs 77-79) and the group loop of Grid::new         *)
(* (grid.rs 25-38).                                                        *)
(***************************************************************************)
MaxMembers == 2

\* The member lists of one group; the member MaxSub is never a sublattice.
MemberLists == SeqsUpTo(0..MaxSub, MaxMembers)

\* output.group: no group, one group, or a group followed by a one-member group.
GroupLists ==
    {<<>>} \cup {<<m>> : m \in MemberLists}
        \cup {<<m, <<s>> >> : m \in MemberLists, s \in 0..MaxSub}

GroupDims == {<<1, 1, 1>>, <<2, 1, 1>>, <<1, 2, 2>>, <<MaxDim, 1, 2>>}

Observables ==
    {"energy", "heat_capacity", "magnetization", "susceptibility",
     "magnetization_abs", "susceptibility_abs"}

\* An Option<bool> of [output]: absent, Some(false) or Some(true).
OptBools == {"none", "false", "true"}

\* The six observable fields of [output].
Outputs == [Observables -> OptBools]

AllNone == [o \in Observables |-> "none"]

AllFalse == [o \in Observables |-> "false"]

OnlyEnergy == [AllNone EXCEPT !["energy"] = "true"]

\* Option<bool>::unwrap_or_default.
unwrap_or_default(b) == b = "true"

GroupRaw(d, n, mags, out, flag, g) ==
    [dim |-> d, sublattices |-> n, pbc |-> <<TRUE, TRUE, TRUE>>,
     exchange_params |-> <<>>, spin_magnitudes |-> [s \in 1..mags |-> 1],
     output |-> out, group_magnetization |-> flag,
     group |-> g, run_group |-> <<>>, run_output |-> [o \in Observables |-> FALSE]]

\* RawConfig as deserialized: the grid, the six observable options, whether
\* group_magnetization is Some(true), and output.group; run_group and
\* run_output are the fields Config::new fills.
GroupRawConfigs ==
    {GroupRaw(d, n, n, OnlyEnergy, f, Some(g)) :
        d \in GroupDims, n \in 1..MaxSub, f \in BOOLEAN, g \in GroupLists}
    \cup
    {GroupRaw(<<1, 2, 2>>, n, mags, out, f, g) :
        n \in 1..MaxSub, mags \in 1..MaxSub, out \in {OnlyEnergy, AllNone}, f \in BOOLEAN,
        g \in {None, Some(<< <<0>> >>), Some(<< <<MaxSub>> >>)}}
    \cup
    {GroupRaw(<<1, 1, 1>>, 1, 1, out, FALSE, None) : out \in Outputs}

\* The two patterns of the match in validate_output (raw_config.rs 152-176):
\* every field None, or every field Some(false).
no_output_fields(out) == out = AllNone \/ out = AllFalse

\* RawConfig::validate_grid.
validate_grid(raw) == raw.sublattices = Len(raw.spin_magnitudes)

\* validate_output without the loop over the group members.
validate_output_unchecked_members(raw) ==
    /\ ~no_output_fields(raw.output)
    /\ ~(raw.group_magnetization /\ ~raw.group.some)

\* RawConfig::validate_output: Ok (TRUE) or an error (FALSE).
validate_output(raw) ==
    /\ ~no_output_fields(raw.output)
    /\ ~(raw.group_magnetization /\ ~raw.group.some)
    /\ raw.group.some =>
          \A i \in DOMAIN raw.group.v : \A j \in DOMAIN raw.group.v[i] :
              ~(raw.group.v[i][j] >= raw.sublattices)

\* The k-th tuple (k = 1..) of iproduct!(0..dim[0], 0..dim[1], 0..dim[2]).
cell_coord(dim, k) ==
    <<(k - 1) \div (dim[2] * dim[3]), ((k - 1) % (dim[2] * dim[3])) \div dim[3],
      (k - 1) % dim[3]>>

\* `indexs` of one group: for each named sublattice in turn, the index of
\* each cell.
RECURSIVE group_indexs(_, _)
group_indexs(members, dim) ==
    IF members = <<>> THEN <<>>
    ELSE [k \in 1..(dim[1] * dim[2] * dim[3]) |->
             coord_to_index(cell_coord(dim, k), Head(members), dim)]
         \o group_indexs(Tail(members), dim)

\* Grid::new: group_index.
group_index(c) == [g \in DOMAIN c.run_group |-> group_indexs(c.run_group[g], c.dim)]

InitGroups ==
    /\ cfg \in GroupRawConfigs
    /\ pc = "raw"
    /\ grid = NoGrid
    /\ steps_done = 0
    /\ spins = <<>>
    /\ spins0 = <<>>
    /\ mc = McIdle
    /\ measured = NoSample
    /\ stats = NoStats
    /\ sched = NoSched

\* Config::new: RawConfig::validate, then unwrap_or_default() of the
\* observable options and of output.group.
GroupConfigNew ==
    /\ pc = "raw"
    /\ IF validate_grid(cfg) /\ validate_output(cfg)
       THEN /\ cfg' = [cfg EXCEPT
                          !.run_group = IF cfg.group.some THEN cfg.group.v ELSE <<>>,
                          !.run_output = [o \in Observables |->
                                             unwrap_or_default(cfg.output[o])]]
            /\ pc' = "configured"
       ELSE /\ cfg' = cfg
            /\ pc' = "config_error"
    /\ UNCHANGED <<grid, steps_done, mc_vars, aux_vars>>

\* Grid::new with its group loop.
GroupGridNew ==
    /\ pc = "configured"
    /\ grid' = grid_new(cfg, FALSE) @@ [group_index |-> group_index(cfg)]
    /\ pc' = "built"
    /\ UNCHANGED <<cfg, steps_done, mc_vars, aux_vars>>

NextGroups == GroupConfigNew \/ GroupGridNew

SpecGroups == InitGroups /\ [][NextGroups]_vars

HasInvalidMember ==
    /\ cfg.group.some
    /\ \E i \in DOMAIN cfg.group.v : \E j \in DOMAIN cfg.group.v[i] :
          cfg.group.v[i][j] >= cfg.sublattices

\* The indices under which Grid::new stores the sites of the sublattices in members.
SitesOf(members) ==
    {SiteIndex(n) : n \in {k \in SiteNumbers :
                              \E j \in DOMAIN members : members[j] = iproduct_site(cfg, k)[1]}}

\* C20: a configuration with a group member >= the sublattice count fails
\* validation and no grid is built; in every built grid each group's index
\* list holds only indices of existing sites, and the indices it holds are
\* exactly those of the sites of the sublattices the group names.
C20_GroupsValid ==
    /\ (HasInvalidMember /\ pc # "raw") => (pc = "config_error" /\ grid = NoGrid)
    /\ pc = "built" =>
          /\ Len(grid.group_index) = Len(cfg.run_group)
          /\ \A g \in DOMAIN grid.group_index :
                /\ \A k \in DOMAIN grid.group_index[g] :
                      grid.group_index[g][k] \in 0..(spins_len(cfg) - 1)
                /\ {grid.group_index[g][k] : k \in DOMAIN grid.group_index[g]}
                      = SitesOf(cfg.run_group[g])

C20_Witness ==
    /\ pc = "built"
    /\ cfg.dim = <<1, 2, 2>>
    /\ cfg.sublattices = 2
    /\ cfg.group = Some(<< <<1, 0>>, <<1>> >>)
    /\ grid.group_index = << <<4, 5, 6, 7, 0, 1, 2, 3>>, <<4, 5, 6, 7>> >>

(***************************************************************************)
(* Properties of the spin types.                                           *)
(***************************************************************************)
IsHeisenberg == cfg.model = "Heisenberg"

SiteIndices == 0..(grid.size - 1)

\* C21 as claimed: for every pair of Heisenberg spins of the lattice, dot is
\* the sum of the products of all three components, a spin's dot product
\* with itself is its squared magnitude, and the exchange energy of a site
\* is -sum J (s . s_j) over all three components.
C21_Claim ==
    IsHeisenberg =>
        /\ \A i, j \in SiteIndices :
              heisenberg_dot(spins[i], spins[j]) = sv_dot(spins[i], spins[j])
        /\ \A i \in SiteIndices :
              heisenberg_dot(spins[i], spins[i]) = site_magnitude(cfg, i) * site_magnitude(cfg, i)
        /\ \A i \in SiteIndices :
              exchange_energy(cfg.model, spins[i], grid.calc_inputs[i], spins) =
                  SumSeq([e \in DOMAIN grid.calc_inputs[i] |->
                             -(grid.calc_inputs[i][e][2]
                                  * sv_dot(spins[i], spins[grid.calc_inputs[i][e][1]]))])

\* S::magnitude squared: the sum of the squares of the components.
magnitude_sqr(s) == sv_dot(s, s)

\* C22: after construction and after every Metropolis or Wolff step, at
\* every point of a step, each site's spin has the magnitude configured for
\* the site's sublattice.
C22_MagnitudeKept ==
    \A i \in SiteIndices :
        magnitude_sqr(spins[i]) = site_magnitude(cfg, i) * site_magnitude(cfg, i)

\* A Wolff step on a Heisenberg lattice, and a Metropolis step, that changed spins.
C22_Witness ==
    /\ mc.pc = "returned"
    /\ \E i \in SiteIndices : spins[i] # spins0[i]
    /\ \/ IsHeisenberg /\ cfg.algorithm = "Wolff" /\ mc.ret >= 2
       \/ cfg.algorithm = "Metropolis" /\ mc.accepted

(***************************************************************************)
(* Properties of the site index (grid.rs 161-165).                         *)
(***************************************************************************)
\* The sites of the configured lattice: <<sublattice, x, y, z>>.
Sites ==
    {<<s, x, y, z>> : s \in 0..(cfg.sublattices - 1), x \in 0..(cfg.dim[1] - 1),
                      y \in 0..(cfg.dim[2] - 1), z \in 0..(cfg.dim[3] - 1)}

IndexOf(site) == coord_to_index(<<site[2], site[3], site[4]>>, site[1], cfg.dim)

\* C23: the site index maps the sites one-to-one onto
\* 0 .. sublattices * dim_x * dim_y * dim_z - 1: every index is in the
\* range, distinct sites have distinct indices (there are as many indices as
\* sites), and every number of the range is the index of a site; a built
\* grid has that many entries.
C23_IndexBijection ==
    LET image == {IndexOf(site) : site \in Sites}
    IN  /\ \A site \in Sites : IndexOf(site) \in 0..(grid_size(cfg) - 1)
        /\ Cardinality(image) = Cardinality(Sites)
        /\ image = 0..(grid_size(cfg) - 1)
        /\ grid.status = "ok" =>
              (grid.size = Cardinality(Sites) /\ DOMAIN grid.calc_inputs = image)

C23_Witness ==
    /\ grid.status = "ok"
    /\ cfg.sublattices = 2
    /\ cfg.dim = <<1, 2, 3>>
    /\ IndexOf(<<1, 0, 1, 2>>) = 11
    /\ IndexOf(<<1, 0, 0, 0>>) = 6

(***************************************************************************)
(* Properties of the Wolff bond weight (wolff.rs 43-54).                   *)
(***************************************************************************)
\* J * (s_site . axis) * (s_neighbor . axis) of the neighbour entry e of `site`.
bond_weight(site, e) == e[2] * sv_dot(spins[site], mc.axis) * sv_dot(spins[e[1]], mc.axis)

\* C24 as claimed: every site that an iteration of the growth loop adds to
\* the queue is the target of a neighbour entry of the dequeued site whose
\* bond weight is strictly positive.
C24_Claim ==
    [][(mc.pc = "grow" /\ mc'.pc = "grow") =>
          \A new \in mc'.visited \ mc.visited :
              \E e \in Range(grid.calc_inputs[Head(mc.queue)]) :
                  e[1] = new /\ bond_weight(Head(mc.queue), e) > 0]_vars

(***************************************************************************)
(* Properties of IsingSpin::energy_diff (ising.rs 71-79).                  *)
(***************************************************************************)
IsIsing == cfg.model = "Ising"

\* propose_constrained_perturbation: the negation of the spin of site i.
negation_of(i) == <<-spins[i][1]>>

\* SpinState::energy_diff of the trait: the energy of the proposal minus the
\* energy of the spin it replaces (spin/mod.rs 167-175).
generic_energy_diff(new_spin, list, sp, old_spin) ==
    hamiltonian_compute(cfg.model, new_spin, list, sp)
        - hamiltonian_compute(cfg.model, old_spin, list, sp)

\* C25: at every Ising site and in every configuration of its neighbours,
\* IsingSpin::energy_diff called on the negation of the site's spin equals
\* the generic difference of the local energies of the proposal and of the
\* current spin over the same neighbour list.
C25_IsingShortcut ==
    IsIsing =>
        \A i \in SiteIndices :
            energy_diff("Ising", negation_of(i), grid.calc_inputs[i], spins, spins[i])
                = generic_energy_diff(negation_of(i), grid.calc_inputs[i], spins, spins[i])

\* An Ising site between two unequal neighbours, and one whose difference is
\* not zero, after an accepted proposal.
C25_Witness ==
    /\ IsIsing
    /\ mc.pc = "returned"
    /\ cfg.algorithm = "Metropolis"
    /\ mc.accepted
    /\ spins[0] # spins[2]
    /\ Len(grid.calc_inputs[1]) = 2
    /\ \E i \in SiteIndices :
          energy_diff("Ising", negation_of(i), grid.calc_inputs[i], spins, spins[i]) > 0

(***************************************************************************)
(* spin/heisenberg.rs 80-87: flip on spins and axes with fractional        *)
(* components.  A component is a fraction [num, den]; the expressions are  *)
(* those of heisenberg_flip with the f64 operations kept exact.            *)
(***************************************************************************)
\* SpinVector::dot on fractions.
RECURSIVE rv_dot(_, _)
rv_dot(a, b) ==
    IF a = <<>> THEN Int2Rat(0)
    ELSE RatAdd(RatMul(Head(a), Head(b)), rv_dot(Tail(a), Tail(b)))

\* SpinVector * f64 on fractions.
rv_scale(a, f) == [i \in DOMAIN a |-> RatMul(a[i], f)]

rv_sub(a, b) == [i \in DOMAIN a |-> RatSub(a[i], b[i])]

rv_neg(a) == [i \in DOMAIN a |-> RatSub(Int2Rat(0), a[i])]

\* A flip that removes the projection on the axis instead of reflecting it.
heisenberg_flip_exact_projected(s, axis) ==
    LET det_vec == rv_scale(axis, rv_dot(s, axis))
    IN  <<RatSub(s[1], det_vec[1]), RatSub(s[2], det_vec[2]), RatSub(s[3], det_vec[3])>>

\* HeisenbergSpin::flip: det_vec = axis * 2 * (state . axis); state - det_vec.
heisenberg_flip_exact(s, axis) ==
    LET det_vec == rv_scale(rv_scale(axis, Int2Rat(2)), rv_dot(s, axis))
    IN  <<RatSub(s[1], det_vec[1]), RatSub(s[2], det_vec[2]), RatSub(s[3], det_vec[3])>>

\* IsingSpin::flip: the sign negation.
ising_flip_exact(s, axis) == <<RatSub(Int2Rat(0), s[1])>>

flip_exact(model, s, axis) ==
    IF model = "Ising" THEN ising_flip_exact(s, axis) ELSE heisenberg_flip_exact(s, axis)

Vec3(x, y, z, d) == <<Rat(x, d), Rat(y, d), Rat(z, d)>>

\* Heisenberg spins: aligned, of magnitude 1 and 3, with whole and
\* fractional components.
FlipSpins ==
    {Vec3(1, 0, 0, 1), Vec3(0, 0, 1, 1), Vec3(1, 2, 2, 1), Vec3(2, -1, -2, 1),
     Vec3(0, 3, 4, 5), Vec3(-3, 0, 4, 5), Vec3(2, -2, 1, 3), Vec3(-4, 0, -3, 1)}

\* Unit axes: cardinal ones and points of the unit sphere with fractional
\* components.
FlipAxes ==
    {Vec3(1, 0, 0, 1), Vec3(0, 0, -1, 1), Vec3(3, 4, 0, 5), Vec3(0, -3, 4, 5),
     Vec3(2, 1, 2, 3), Vec3(-2, 2, 1, 3), Vec3(1, 2, -2, 3), Vec3(4, 0, -3, 5)}

FlipInputs ==
    {[model |-> "Heisenberg", spin |-> s, axis |-> a] : s \in FlipSpins, a \in FlipAxes}
    \cup
    {[model |-> "Ising", spin |-> <<Int2Rat(s)>>, axis |-> <<Int2Rat(a)>>] :
        s \in {1, -1, 2, -2}, a \in {1, -1}}

\* spins[0] is the spin; spins0 lists the values it had before each flip.
InitFlip ==
    /\ cfg \in FlipInputs
    /\ pc = "constructed"
    /\ grid = NoGrid
    /\ steps_done = 0
    /\ spins = (0 :> cfg.spin)
    /\ spins0 = <<>>
    /\ mc = McIdle
    /\ measured = NoSample
    /\ stats = NoStats
    /\ sched = NoSched

\* grid.spins[index].flip(&axis) (wolff.rs 59).
Flip ==
    /\ pc = "constructed"
    /\ spins' = (0 :> flip_exact(cfg.model, spins[0], cfg.axis))
    /\ spins0' = Append(spins0, spins[0])
    /\ pc' = "flipped"
    /\ UNCHANGED <<cfg, grid, steps_done, mc, measured, aux_vars>>

\* A second flip of the same spin with the same axis.
FlipAgain ==
    /\ pc = "flipped"
    /\ spins' = (0 :> flip_exact(cfg.model, spins[0], cfg.axis))
    /\ spins0' = Append(spins0, spins[0])
    /\ pc' = "flipped_twice"
    /\ UNCHANGED <<cfg, grid, steps_done, mc, measured, aux_vars>>

NextFlip == Flip \/ FlipAgain

SpecFlip == InitFlip /\ [][NextFlip]_vars

\* The part of s orthogonal to the axis.
orthogonal_part(s, axis) == rv_sub(s, rv_scale(axis, rv_dot(s, axis)))

\* C26: a flip turns the spin s into s - 2 (s . axis) axis: the projection
\* on the axis changes sign, the part orthogonal to the axis and the squared
\* magnitude stay, an Ising spin changes sign, and a second flip with the
\* same axis gives the original spin back.
C26_FlipReflects ==
    /\ pc \in {"flipped", "flipped_twice"} =>
          LET s == spins0[Len(spins0)]
              t == spins[0]
          IN  /\ t = rv_sub(s, rv_scale(cfg.axis, RatMul(Int2Rat(2), rv_dot(s, cfg.axis))))
              /\ rv_dot(t, cfg.axis) = RatSub(Int2Rat(0), rv_dot(s, cfg.axis))
              /\ orthogonal_part(t, cfg.axis) = orthogonal_part(s, cfg.axis)
              /\ rv_dot(t, t) = rv_dot(s, s)
              /\ cfg.model = "Ising" => t = rv_neg(s)
    /\ pc = "flipped_twice" => spins[0] = spins0[1]

C26_Witness ==
    /\ pc = "flipped_twice"
    /\ cfg.model = "Heisenberg"
    /\ cfg.axis = Vec3(2, 1, 2, 3)
    /\ spins0 = <<Vec3(1, 2, 2, 1), Vec3(-23, 2, -14, 9)>>
    /\ spins[0] = Vec3(1, 2, 2, 1)

(***************************************************************************)
(* Properties of the temperature loop and of the sample count.             *)
(***************************************************************************)
\* The temperatures come from the triple alone.
FromTriple == ~cfg.temperatures.some /\ TripleGiven

\* C27 as claimed: for every triple, temp_step = 0 and temp_step < 0 with
\* temp_start <= temp_end included, the generation loop ends and
\* Config::resolve_temperatures returns a list of finitely many temperatures.
C27_Claim ==
    (FromTriple /\ pc # "raw") =>
        /\ pc # "diverged"
        /\ sched.some
        /\ Len(sched.temperatures) \in Nat

\* C28 as claimed: when stats.result() is called at the end of the
\* production loop, at least one sample has been recorded, for every n_steps
\* (0 included) and stats_interval.
C28_Claim ==
    pc.loop = "finished" => stats.steps >= 1

(***************************************************************************)
(* Properties of the observable options.                                   *)
(***************************************************************************)
NoObservableEnabled == \A o \in Observables : cfg.output[o] # "true"

\* C29 as claimed: a configuration in which no observable is Some(true),
\* whatever mix of absent and Some(false) fields says so, fails validation,
\* and every configuration Config::new returns has an observable enabled.
C29_Claim ==
    /\ (NoObservableEnabled /\ pc # "raw") => pc = "config_error"
    /\ pc \in {"configured", "built"} => \E o \in Observables : cfg.run_output[o]

(***************************************************************************)
(* Self-links of a built lattice.                                          *)
(***************************************************************************)
\* C30 as claimed: in a built lattice no site's neighbour list has an entry
\* with the site's own index, whatever the dimensions, the periodic flags
\* and the offsets.
C30_Claim ==
    grid.status = "ok" =>
        \A n \in SiteNumbers :
            \A e \in DOMAIN grid.calc_inputs[SiteIndex(n)] :
                grid.calc_inputs[SiteIndex(n)][e][1] # SiteIndex(n)

====
